---- MODULE Spec2Model ----
(***************************************************************************)
(* tdo-core: the task lifecycle and index-allocation engine.               *)
(*                                                                         *)
(* One store (the tables tasks, completed_tasks and deleted_tasks, and the *)
(* transaction log) per environment; one process performs one command      *)
(* end-to-end.  A command is                                               *)
(* one action: Database::open, the per-index loop and every SQL statement  *)
(* it runs.  SQL tables are sequences of rows in rowid (insertion) order,  *)
(* so that "two rows with one index" or "two rows with one uid" are states *)
(* the model can express.                                                  *)
(*                                                                         *)
(* The table schema is not part of the Rust sources: the columns are those *)
(* named by the INSERT statements, and SELECT * is read as yielding the    *)
(* columns Task::from_row expects.  No uniqueness constraint is assumed    *)
(* where one process runs at a time (none could fail there: the allocator  *)
(* returns a free index); for two racing Creates the store's constraint is *)
(* modelled as the specification states it (tasks_insert).                 *)
(***************************************************************************)
EXTENDS Integers, Sequences, FiniteSets, TLC

VARIABLES
    db,     \* db[e]: the store of environment e (its tables)
    last,   \* the last command: its arguments and what the process returned
    nops    \* number of commands run so far; also the clock and the uid source

vars == <<db, last, nops>>

(***************************************************************************)
(* Bounds.                                                                 *)
(***************************************************************************)
\* commands in one behaviour
MaxOps == 4
\* size of the index universe of the allocator specification
MaxAllocIndex == 6

(***************************************************************************)
(* Option<T>, JSON text.                                                   *)
(***************************************************************************)
None == <<>>
Some(x) == <<x>>
IsSome(o) == Len(o) = 1
unwrap_or(o, d) == IF Len(o) = 1 THEN o[1] ELSE d

\* serde_json::to_string / from_str: the stored TEXT wraps the value
to_string(v) == [json |-> v]
from_str(s) == s.json

Range(s) == {s[k] : k \in 1..Len(s)}
Contains(s, x) == \E k \in 1..Len(s) : s[k] = x

(***************************************************************************)
(* Environments.  Database::open never creates a store: the set of         *)
(* environments that have one is fixed.                                    *)
(***************************************************************************)
StoreEnvs == {"default", "work"}
EnvNames == StoreEnvs \cup {"ghost"}

EmptyConn == [tasks |-> <<>>, completed_tasks |-> <<>>, deleted_tasks |-> <<>>,
              transaction_log |-> <<>>]

Database_open(e) == e \in DOMAIN db

(***************************************************************************)
(* task.rs                                                                 *)
(***************************************************************************)
project_of(x_properties) ==
    LET obj == unwrap_or(x_properties, to_string({})) IN
    IF \E p \in from_str(obj) : p[1] = "X-PROJECT"
    THEN Some((CHOOSE p \in from_str(obj) : p[1] = "X-PROJECT")[2])
    ELSE None

Task_from_row(row) ==
    [uid |-> row.uid,
     index |-> row.task_index[1],
     summary |-> row.summary,
     status |-> row.status,
     due |-> row.due,
     wait |-> row.wait,
     priority |-> row.priority,
     tags |-> IF IsSome(row.categories) THEN from_str(row.categories[1]) ELSE <<>>,
     project |-> project_of(row.x_properties),
     url |-> row.url,
     attachments |-> IF IsSome(row.attachments) THEN from_str(row.attachments[1]) ELSE <<>>]

(***************************************************************************)
(* mutations.rs                                                            *)
(***************************************************************************)
MutationResult(task, tasks, index) ==
    [success |-> TRUE, task |-> task, tasks |-> tasks, error |-> None, index |-> index]

\* the clock read by now_timestamp(): it advances with every command
now_timestamp == nops + 1

\* Uuid::new_v4(): a uid no earlier command has drawn
Uuid_new_v4 == nops + 1

parse_datetime_to_timestamp(s) ==
    CASE s = "2024-01-01T00:00:00Z" -> Some(1704067200)
      [] s = "2024-01-01T00:00:00" -> Some(1704067200)
      [] s = "2024-01-02" -> Some(1704153600)
      [] OTHER -> None

and_then_parse(o) == IF IsSome(o) THEN parse_datetime_to_timestamp(o[1]) ELSE None

\* the mutant: the scan compares with >= and takes an index in use for a hole
RECURSIVE first_hole_ge(_, _, _)
first_hole_ge(indices, k, expected) ==
    IF k > Len(indices) THEN indices[Len(indices)] + 1
    ELSE IF indices[k] >= expected THEN expected
    ELSE first_hole_ge(indices, k + 1, indices[k] + 1)

\* indices are i32: idx + 1 leaves the type only when 2^31 - 1 is in use and
\* every smaller index with it, which no bounded run reaches
RECURSIVE first_hole(_, _, _)
first_hole(indices, k, expected) ==
    IF k > Len(indices) THEN indices[Len(indices)] + 1
    ELSE IF indices[k] > expected THEN expected
    ELSE first_hole(indices, k + 1, indices[k] + 1)

\* the mutant: no hole is looked for, the result is always max + 1
next_available_index_max(conn) ==
    LET nonnull == SelectSeq(conn.tasks, LAMBDA r : r.task_index # None)
        indices == SortSeq([k \in 1..Len(nonnull) |-> nonnull[k].task_index[1]],
                           LAMBDA a, b : a < b)
    IN  IF indices = <<>> THEN 1 ELSE indices[Len(indices)] + 1

next_available_index(conn) ==
    LET nonnull == SelectSeq(conn.tasks, LAMBDA r : r.task_index # None)
        indices == SortSeq([k \in 1..Len(nonnull) |-> nonnull[k].task_index[1]],
                           LAMBDA a, b : a < b)
    IN  IF indices = <<>> THEN 1 ELSE first_hole(indices, 1, 1)

get_task_by_uid(conn, uid) ==
    LET rows == SelectSeq(conn.tasks, LAMBDA r : r.uid = uid)
    IN  IF rows = <<>> THEN None ELSE Some(Task_from_row(rows[1]))

\* the mutant: the new task is marked as if it had been synchronized before
add_task_marks_update(conn, input, uid, now) ==
    LET index == next_available_index(conn)
        row == [uid |-> uid,
                summary |-> input.summary,
                status |-> unwrap_or(input.status, "NEEDS-ACTION"),
                due |-> input.due,
                wait |-> input.wait,
                due_utc |-> and_then_parse(input.due),
                wait_utc |-> and_then_parse(input.wait),
                priority |-> input.priority,
                x_properties |-> IF IsSome(input.project)
                                 THEN Some(to_string({<<"X-PROJECT", input.project[1]>>}))
                                 ELSE Some(to_string({})),
                categories |-> Some(to_string(unwrap_or(input.tags, <<>>))),
                url |-> input.url,
                attachments |-> Some(to_string(<<>>)),
                href |-> None,
                pending_action |-> Some("update"),
                last_synced |-> None,
                updated_at |-> Some(now),
                task_index |-> Some(index)]
        conn2 == [conn EXCEPT !.tasks = Append(@, row)]
    IN  [conn |-> conn2,
         result |-> MutationResult(get_task_by_uid(conn2, uid), None, Some(index))]

add_task(conn, input, uid, now) ==
    LET index == next_available_index(conn)
        row == [uid |-> uid,
                summary |-> input.summary,
                status |-> unwrap_or(input.status, "NEEDS-ACTION"),
                due |-> input.due,
                wait |-> input.wait,
                due_utc |-> and_then_parse(input.due),
                wait_utc |-> and_then_parse(input.wait),
                priority |-> input.priority,
                x_properties |-> IF IsSome(input.project)
                                 THEN Some(to_string({<<"X-PROJECT", input.project[1]>>}))
                                 ELSE Some(to_string({})),
                categories |-> Some(to_string(unwrap_or(input.tags, <<>>))),
                url |-> input.url,
                attachments |-> Some(to_string(<<>>)),
                href |-> None,
                pending_action |-> Some("create"),
                last_synced |-> None,
                updated_at |-> Some(now),
                task_index |-> Some(index)]
        conn2 == [conn EXCEPT !.tasks = Append(@, row)]
    IN  [conn |-> conn2,
         result |-> MutationResult(get_task_by_uid(conn2, uid), None, Some(index))]

\* the mutant: a modified task is always marked for update
new_pending_action_update(pending) == "update"

\* "create" stays "create"; anything else (NULL included) becomes "update"
new_pending_action(pending) ==
    IF pending = Some("create") THEN "create" ELSE "update"

RECURSIVE push_missing(_, _, _)
push_missing(cats, add_tags, k) ==
    IF k > Len(add_tags) THEN cats
    ELSE IF ~Contains(cats, add_tags[k])
         THEN push_missing(Append(cats, add_tags[k]), add_tags, k + 1)
         ELSE push_missing(cats, add_tags, k + 1)

\* the mutant: the subtractive set is applied before the additive one
apply_tag_changes_remove_first(cats, changes) ==
    LET kept == IF IsSome(changes.remove_tags)
                THEN SelectSeq(cats, LAMBDA t : ~Contains(changes.remove_tags[1], t))
                ELSE cats
    IN  IF IsSome(changes.add_tags) THEN push_missing(kept, changes.add_tags[1], 1) ELSE kept

apply_tag_changes(cats, changes) ==
    LET added == IF IsSome(changes.add_tags)
                 THEN push_missing(cats, changes.add_tags[1], 1)
                 ELSE cats
    IN  IF IsSome(changes.remove_tags)
        THEN SelectSeq(added, LAMBDA t : ~Contains(changes.remove_tags[1], t))
        ELSE added

set_project(x_props, project) ==
    {p \in x_props : p[1] # "X-PROJECT"} \cup {<<"X-PROJECT", project>>}

\* the mutant: due and wait are overwritten by the change set, present or not
modify_single_task_overwrites(conn, index, changes, now) ==
    LET rows == SelectSeq(conn.tasks, LAMBDA r : r.task_index = Some(index)) IN
    IF rows = <<>> THEN [conn |-> conn, task |-> None]
    ELSE
    LET cur == rows[1]
        uid == cur.uid
        summary == unwrap_or(changes.summary, cur.summary)
        status == unwrap_or(changes.status, cur.status)
        due == changes.due
        wait == changes.wait
        priority == IF IsSome(changes.priority) THEN changes.priority ELSE cur.priority
        url == IF IsSome(changes.url) THEN changes.url ELSE cur.url
        x_props0 == IF IsSome(cur.x_properties) THEN from_str(cur.x_properties[1]) ELSE {}
        x_props == IF IsSome(changes.project)
                   THEN set_project(x_props0, changes.project[1])
                   ELSE x_props0
        cats0 == IF IsSome(cur.categories) THEN from_str(cur.categories[1]) ELSE <<>>
        cats == apply_tag_changes(cats0, changes)
        new_pending == new_pending_action(cur.pending_action)
        update(r) == IF r.uid # uid THEN r
                     ELSE [r EXCEPT !.summary = summary,
                                    !.status = status,
                                    !.due = due,
                                    !.wait = wait,
                                    !.due_utc = and_then_parse(due),
                                    !.wait_utc = and_then_parse(wait),
                                    !.priority = priority,
                                    !.x_properties = Some(to_string(x_props)),
                                    !.categories = Some(to_string(cats)),
                                    !.url = url,
                                    !.pending_action = Some(new_pending),
                                    !.updated_at = Some(now)]
        conn2 == [conn EXCEPT !.tasks = [k \in 1..Len(conn.tasks) |-> update(conn.tasks[k])]]
    IN  [conn |-> conn2, task |-> get_task_by_uid(conn2, uid)]

modify_single_task(conn, index, changes, now) ==
    LET rows == SelectSeq(conn.tasks, LAMBDA r : r.task_index = Some(index)) IN
    IF rows = <<>> THEN [conn |-> conn, task |-> None]
    ELSE
    LET cur == rows[1]
        uid == cur.uid
        summary == unwrap_or(changes.summary, cur.summary)
        status == unwrap_or(changes.status, cur.status)
        due == IF IsSome(changes.due) THEN changes.due ELSE cur.due
        wait == IF IsSome(changes.wait) THEN changes.wait ELSE cur.wait
        priority == IF IsSome(changes.priority) THEN changes.priority ELSE cur.priority
        url == IF IsSome(changes.url) THEN changes.url ELSE cur.url
        x_props0 == IF IsSome(cur.x_properties) THEN from_str(cur.x_properties[1]) ELSE {}
        x_props == IF IsSome(changes.project)
                   THEN set_project(x_props0, changes.project[1])
                   ELSE x_props0
        cats0 == IF IsSome(cur.categories) THEN from_str(cur.categories[1]) ELSE <<>>
        cats == apply_tag_changes(cats0, changes)
        new_pending == new_pending_action(cur.pending_action)
        update(r) == IF r.uid # uid THEN r
                     ELSE [r EXCEPT !.summary = summary,
                                    !.status = status,
                                    !.due = due,
                                    !.wait = wait,
                                    !.due_utc = and_then_parse(due),
                                    !.wait_utc = and_then_parse(wait),
                                    !.priority = priority,
                                    !.x_properties = Some(to_string(x_props)),
                                    !.categories = Some(to_string(cats)),
                                    !.url = url,
                                    !.pending_action = Some(new_pending),
                                    !.updated_at = Some(now)]
        conn2 == [conn EXCEPT !.tasks = [k \in 1..Len(conn.tasks) |-> update(conn.tasks[k])]]
    IN  [conn |-> conn2, task |-> get_task_by_uid(conn2, uid)]

RECURSIVE modify_loop(_, _, _, _, _, _)
modify_loop(conn, indices, k, changes, now, modified_tasks) ==
    IF k > Len(indices) THEN [conn |-> conn, tasks |-> modified_tasks]
    ELSE LET r == modify_single_task(conn, indices[k], changes, now) IN
         modify_loop(r.conn, indices, k + 1, changes, now,
                     IF IsSome(r.task) THEN Append(modified_tasks, r.task[1])
                     ELSE modified_tasks)

\* the mutant: an index that matches no task fails the request
modify_tasks_strict(conn, indices, changes, now) ==
    LET r == modify_loop(conn, indices, 1, changes, now, <<>>)
    IN  [conn |-> r.conn,
         result |-> IF Len(r.tasks) < Len(indices)
                    THEN [success |-> FALSE, task |-> None, tasks |-> None,
                          error |-> Some("not found"), index |-> None]
                    ELSE MutationResult(None, Some(r.tasks), None)]

modify_tasks(conn, indices, changes, now) ==
    LET r == modify_loop(conn, indices, 1, changes, now, <<>>)
    IN  [conn |-> r.conn, result |-> MutationResult(None, Some(r.tasks), None)]

NoChanges == [summary |-> None, status |-> None, due |-> None, wait |-> None,
              priority |-> None, project |-> None, add_tags |-> None,
              remove_tags |-> None, url |-> None]

set_status(conn, indices, status, now) ==
    modify_tasks(conn, indices, [NoChanges EXCEPT !.status = Some(status)], now)

start_tasks(conn, indices, now) == set_status(conn, indices, "IN-PROCESS", now)

stop_tasks(conn, indices, now) == set_status(conn, indices, "NEEDS-ACTION", now)

\* the mutant: the DELETE matches no row
delete_where_task_index_none(tasks, index) == tasks

\* the mutant: the rows above the deleted index are renumbered to close the hole
delete_where_task_index_renumbers(tasks, index) ==
    LET kept == SelectSeq(tasks, LAMBDA r : r.task_index # Some(index))
    IN  [k \in 1..Len(kept) |->
            IF kept[k].task_index[1] > index
            THEN [kept[k] EXCEPT !.task_index = Some(@[1] - 1)]
            ELSE kept[k]]

\* DELETE FROM tasks WHERE task_index = ?
delete_where_task_index(tasks, index) ==
    SelectSeq(tasks, LAMBDA r : r.task_index # Some(index))

\* complete_single_task's own copy of the create/update rule
completed_pending_action(pending) ==
    IF pending = Some("create") THEN "create" ELSE "update"

\* the mutant: the status is copied, not forced
completed_row_keeps_status(r, new_pending, now) ==
    [uid |-> r.uid, summary |-> r.summary, status |-> r.status, due |-> r.due,
     wait |-> r.wait, due_utc |-> r.due_utc, wait_utc |-> r.wait_utc,
     priority |-> r.priority, x_properties |-> r.x_properties,
     categories |-> r.categories, url |-> r.url, attachments |-> r.attachments,
     href |-> r.href, pending_action |-> Some(new_pending),
     last_synced |-> r.last_synced, updated_at |-> Some(now),
     completed_at |-> Some(now), task_index |-> r.task_index]

completed_row(r, new_pending, now) ==
    [uid |-> r.uid, summary |-> r.summary, status |-> "COMPLETED", due |-> r.due,
     wait |-> r.wait, due_utc |-> r.due_utc, wait_utc |-> r.wait_utc,
     priority |-> r.priority, x_properties |-> r.x_properties,
     categories |-> r.categories, url |-> r.url, attachments |-> r.attachments,
     href |-> r.href, pending_action |-> Some(new_pending),
     last_synced |-> r.last_synced, updated_at |-> Some(now),
     completed_at |-> Some(now), task_index |-> r.task_index]

\* the mutant: the result is read back after the transition
complete_snapshot_after(row) == [Task_from_row(row) EXCEPT !.status = "COMPLETED"]

\* the task is read from the active table before anything is written
complete_snapshot(row) == Task_from_row(row)

\* the mutant: the completed set is overwritten, not appended to
complete_single_task_replaces(conn, index, now) ==
    LET rows == SelectSeq(conn.tasks, LAMBDA r : r.task_index = Some(index)) IN
    IF rows = <<>> THEN [conn |-> conn, task |-> None]
    ELSE
    LET task == complete_snapshot(rows[1])
        new_pending == completed_pending_action(rows[1].pending_action)
        moved == [k \in 1..Len(rows) |-> completed_row(rows[k], new_pending, now)]
    IN  [conn |-> [conn EXCEPT
                     !.completed_tasks = moved,
                     !.tasks = delete_where_task_index(@, index)],
         task |-> Some(task)]

complete_single_task(conn, index, now) ==
    LET rows == SelectSeq(conn.tasks, LAMBDA r : r.task_index = Some(index)) IN
    IF rows = <<>> THEN [conn |-> conn, task |-> None]
    ELSE
    LET task == complete_snapshot(rows[1])
        new_pending == completed_pending_action(rows[1].pending_action)
        moved == [k \in 1..Len(rows) |-> completed_row(rows[k], new_pending, now)]
    IN  [conn |-> [conn EXCEPT
                     !.completed_tasks = @ \o moved,
                     !.tasks = delete_where_task_index(@, index)],
         task |-> Some(task)]

RECURSIVE complete_loop(_, _, _, _, _)
complete_loop(conn, indices, k, now, completed) ==
    IF k > Len(indices) THEN [conn |-> conn, tasks |-> completed]
    ELSE LET r == complete_single_task(conn, indices[k], now) IN
         complete_loop(r.conn, indices, k + 1, now,
                       IF IsSome(r.task) THEN Append(completed, r.task[1]) ELSE completed)

complete_tasks(conn, indices, now) ==
    LET r == complete_loop(conn, indices, 1, now, <<>>)
    IN  [conn |-> r.conn, result |-> MutationResult(None, Some(r.tasks), None)]

deleted_row(r, now) ==
    [uid |-> r.uid, summary |-> r.summary, status |-> r.status, due |-> r.due,
     wait |-> r.wait, due_utc |-> r.due_utc, wait_utc |-> r.wait_utc,
     priority |-> r.priority, x_properties |-> r.x_properties,
     categories |-> r.categories, url |-> r.url, attachments |-> r.attachments,
     href |-> r.href, last_synced |-> r.last_synced, deleted_at |-> Some(now),
     task_index |-> r.task_index]

\* the mutant: every deleted task leaves a tombstone
never_synced_always_false(pending) == FALSE

\* "If never synced, just delete"
never_synced(pending) == pending = Some("create")

delete_single_task(conn, index, now) ==
    LET rows == SelectSeq(conn.tasks, LAMBDA r : r.task_index = Some(index)) IN
    IF rows = <<>> THEN [conn |-> conn, task |-> None]
    ELSE
    LET task == Task_from_row(rows[1])
        remaining == delete_where_task_index(conn.tasks, index)
    IN  IF never_synced(rows[1].pending_action)
        THEN [conn |-> [conn EXCEPT !.tasks = remaining], task |-> Some(task)]
        ELSE [conn |-> [conn EXCEPT
                          !.deleted_tasks =
                              @ \o [k \in 1..Len(rows) |-> deleted_row(rows[k], now)],
                          !.tasks = remaining],
              task |-> Some(task)]

RECURSIVE delete_loop(_, _, _, _, _)
delete_loop(conn, indices, k, now, deleted) ==
    IF k > Len(indices) THEN [conn |-> conn, tasks |-> deleted]
    ELSE LET r == delete_single_task(conn, indices[k], now) IN
         delete_loop(r.conn, indices, k + 1, now,
                     IF IsSome(r.task) THEN Append(deleted, r.task[1]) ELSE deleted)

\* the mutant: every index is looked up in the store as it was before the first delete
delete_tasks_reads_first(conn, indices, now) ==
    LET r == delete_loop(conn, indices, 1, now, <<>>)
        matched == SelectSeq([k \in 1..Len(indices) |-> k],
                             LAMBDA k : \E t \in Range(conn.tasks) :
                                            t.task_index = Some(indices[k]))
        found == [j \in 1..Len(matched) |->
                     Task_from_row(CHOOSE t \in Range(conn.tasks) :
                                       t.task_index = Some(indices[matched[j]]))]
    IN  [conn |-> r.conn, result |-> MutationResult(None, Some(found), None)]

delete_tasks(conn, indices, now) ==
    LET r == delete_loop(conn, indices, 1, now, <<>>)
    IN  [conn |-> r.conn, result |-> MutationResult(None, Some(r.tasks), None)]

(***************************************************************************)
(* move_tasks is called by main.rs and is not among the sources at hand:   *)
(* it is modelled from its specification.  Per matched index: the record   *)
(* is written to the destination's active set under an index allocated     *)
(* against the destination, uid and fields kept, and then deleted from the *)
(* source's active set.                                                    *)
(***************************************************************************)
move_single_task(src, dest, index) ==
    LET rows == SelectSeq(src.tasks, LAMBDA r : r.task_index = Some(index)) IN
    IF rows = <<>> THEN [src |-> src, dest |-> dest, task |-> None]
    ELSE LET moved == [rows[1] EXCEPT !.task_index = Some(next_available_index(dest))]
         IN  [src |-> [src EXCEPT !.tasks = delete_where_task_index(@, index)],
              dest |-> [dest EXCEPT !.tasks = Append(@, moved)],
              task |-> Some(Task_from_row(moved))]

RECURSIVE move_loop(_, _, _, _, _)
move_loop(src, dest, indices, k, moved) ==
    IF k > Len(indices) THEN [src |-> src, dest |-> dest, tasks |-> moved]
    ELSE LET r == move_single_task(src, dest, indices[k]) IN
         move_loop(r.src, r.dest, indices, k + 1,
                   IF IsSome(r.task) THEN Append(moved, r.task[1]) ELSE moved)

move_tasks(src, dest, indices) ==
    LET r == move_loop(src, dest, indices, 1, <<>>)
    IN  [src |-> r.src, dest |-> r.dest,
         result |-> MutationResult(None, Some(r.tasks), None)]

(***************************************************************************)
(* main.rs: handle_json_command                                            *)
(***************************************************************************)
NoInput == [summary |-> "s1", status |-> None, due |-> None, wait |-> None,
            priority |-> None, project |-> None, tags |-> None, url |-> None]

TaskInputs ==
    { NoInput,
      [summary |-> "s2", status |-> Some("IN-PROCESS"), due |-> Some("2024-01-02"),
       wait |-> Some("soon"), priority |-> Some(1), project |-> Some("X"),
       tags |-> Some(<<"a", "b", "a">>), url |-> Some("u1")] }

Ok(r) == [err |-> None, out |-> Some(r)]
Err(msg) == [err |-> Some(msg), out |-> None]

Command(cmd, e, dest, indices, input, changes, result) ==
    [cmd |-> cmd, env |-> e, dest_env |-> dest, indices |-> indices,
     input |-> input, changes |-> changes, result |-> result]

Add(e, input) ==
    /\ nops < MaxOps
    /\ nops' = nops + 1
    /\ IF Database_open(e)
       THEN LET r == add_task(db[e], input, Uuid_new_v4, now_timestamp) IN
            /\ db' = [db EXCEPT ![e] = r.conn]
            /\ last' = Command("add", e, None, <<>>, Some(input), None, Ok(r.result))
       ELSE /\ db' = db
            /\ last' = Command("add", e, None, <<>>, Some(input), None,
                               Err("Database not found"))

(***************************************************************************)
(* Request inputs.  A request names indices among those in use in the      *)
(* environment and the one after the largest (which matches no task), in   *)
(* lists of at most two: ascending pairs, one index twice, and the         *)
(* unmatched index before a matched one.                                   *)
(***************************************************************************)
ActiveIndices(conn) == {conn.tasks[k].task_index[1] : k \in 1..Len(conn.tasks)}

SetMax(S) == IF S = {} THEN 0 ELSE CHOOSE x \in S : \A y \in S : y <= x

RequestIndices(e) ==
    LET used == IF e \in DOMAIN db THEN ActiveIndices(db[e]) ELSE {}
    IN  used \cup {SetMax(used) + 1}

IndexLists(e) ==
    LET used == IF e \in DOMAIN db THEN ActiveIndices(db[e]) ELSE {}
    IN  {<<>>} \cup {<<i>> : i \in RequestIndices(e)}
               \cup {p \in RequestIndices(e) \X RequestIndices(e) : p[1] <= p[2]}
               \cup {<<SetMax(used) + 1, i>> : i \in used}

ChangeSets ==
    { [NoChanges EXCEPT !.summary = Some("s3"), !.due = Some("2024-01-01T00:00:00Z"),
                        !.priority = Some(2), !.project = Some("Y"), !.url = Some("u2")],
      [NoChanges EXCEPT !.add_tags = Some(<<"a", "a">>)],
      [NoChanges EXCEPT !.add_tags = Some(<<"a", "c">>), !.remove_tags = Some(<<"a">>)] }

Modify(e, indices, changes) ==
    /\ nops < MaxOps
    /\ nops' = nops + 1
    /\ IF Database_open(e)
       THEN LET r == modify_tasks(db[e], indices, changes, now_timestamp) IN
            /\ db' = [db EXCEPT ![e] = r.conn]
            /\ last' = Command("modify", e, None, indices, None, Some(changes), Ok(r.result))
       ELSE /\ db' = db
            /\ last' = Command("modify", e, None, indices, None, Some(changes),
                               Err("Database not found"))

Start(e, indices) ==
    /\ nops < MaxOps
    /\ nops' = nops + 1
    /\ IF Database_open(e)
       THEN LET r == start_tasks(db[e], indices, now_timestamp) IN
            /\ db' = [db EXCEPT ![e] = r.conn]
            /\ last' = Command("start", e, None, indices, None, None, Ok(r.result))
       ELSE /\ db' = db
            /\ last' = Command("start", e, None, indices, None, None,
                               Err("Database not found"))

Stop(e, indices) ==
    /\ nops < MaxOps
    /\ nops' = nops + 1
    /\ IF Database_open(e)
       THEN LET r == stop_tasks(db[e], indices, now_timestamp) IN
            /\ db' = [db EXCEPT ![e] = r.conn]
            /\ last' = Command("stop", e, None, indices, None, None, Ok(r.result))
       ELSE /\ db' = db
            /\ last' = Command("stop", e, None, indices, None, None,
                               Err("Database not found"))

Do(e, indices) ==
    /\ nops < MaxOps
    /\ nops' = nops + 1
    /\ IF Database_open(e)
       THEN LET r == complete_tasks(db[e], indices, now_timestamp) IN
            /\ db' = [db EXCEPT ![e] = r.conn]
            /\ last' = Command("do", e, None, indices, None, None, Ok(r.result))
       ELSE /\ db' = db
            /\ last' = Command("do", e, None, indices, None, None,
                               Err("Database not found"))

Delete(e, indices) ==
    /\ nops < MaxOps
    /\ nops' = nops + 1
    /\ IF Database_open(e)
       THEN LET r == delete_tasks(db[e], indices, now_timestamp) IN
            /\ db' = [db EXCEPT ![e] = r.conn]
            /\ last' = Command("delete", e, None, indices, None, None, Ok(r.result))
       ELSE /\ db' = db
            /\ last' = Command("delete", e, None, indices, None, None,
                               Err("Database not found"))

(***************************************************************************)
(* The external synchronizer: it pushes one pending active record upstream *)
(* and clears its marker.  It is the only writer of last_synced.           *)
(***************************************************************************)
Sync(e, k) ==
    /\ nops < MaxOps
    /\ nops' = nops + 1
    /\ k \in 1..Len(db[e].tasks)
    /\ IsSome(db[e].tasks[k].pending_action)
    /\ db' = [db EXCEPT ![e].tasks[k].pending_action = None,
                        ![e].tasks[k].last_synced = Some(now_timestamp)]
    /\ last' = Command("sync", e, None, <<>>, None, None, Ok(MutationResult(None, None, None)))

\* the mutant: the destination is opened after the source has been written to
Move_destination_opened_late(e, dest, indices) ==
    /\ nops < MaxOps
    /\ nops' = nops + 1
    /\ dest # e
    /\ IF Database_open(e) /\ Database_open(dest)
       THEN LET r == move_tasks(db[e], db[dest], indices) IN
            /\ db' = [db EXCEPT ![e] = r.src, ![dest] = r.dest]
            /\ last' = Command("move", e, Some(dest), indices, None, None, Ok(r.result))
       ELSE /\ db' = IF Database_open(e)
                     THEN [db EXCEPT ![e].tasks =
                              SelectSeq(@, LAMBDA r : r.task_index[1] \notin Range(indices))]
                     ELSE db
            /\ last' = Command("move", e, Some(dest), indices, None, None,
                               Err("Database not found"))

\* the two environments are two stores: dest # e
Move(e, dest, indices) ==
    /\ nops < MaxOps
    /\ nops' = nops + 1
    /\ dest # e
    /\ IF Database_open(e) /\ Database_open(dest)
       THEN LET r == move_tasks(db[e], db[dest], indices) IN
            /\ db' = [db EXCEPT ![e] = r.src, ![dest] = r.dest]
            /\ last' = Command("move", e, Some(dest), indices, None, None, Ok(r.result))
       ELSE /\ db' = db
            /\ last' = Command("move", e, Some(dest), indices, None, None,
                               Err("Database not found"))

NoCommand ==
    Command("none", "default", None, <<>>, None, None, Ok(MutationResult(None, None, None)))

Init ==
    /\ db = [e \in StoreEnvs |-> EmptyConn]
    /\ last = NoCommand
    /\ nops = 0

\* requests that name no environment go to "default" (main.rs)
Next ==
    \/ \E input \in TaskInputs : Add("default", input)
    \/ \E indices \in IndexLists("default"), changes \in ChangeSets :
           Modify("default", indices, changes)
    \/ \E indices \in IndexLists("default") : Start("default", indices)
    \/ \E indices \in IndexLists("default") : Stop("default", indices)
    \/ \E indices \in IndexLists("default") : Do("default", indices)
    \/ \E indices \in IndexLists("default") : Delete("default", indices)
    \/ \E k \in 1..Len(db["default"].tasks) : Sync("default", k)

Spec == Init /\ [][Next]_vars

(***************************************************************************)
(* The allocator over every set of indices in use: a store whose active    *)
(* set holds the indices of any subset of 1..MaxAllocIndex, its rows in    *)
(* ascending or in descending rowid order, and one Create.                 *)
(***************************************************************************)
seed_row(index) ==
    [uid |-> 0 - index, summary |-> "s1", status |-> "NEEDS-ACTION", due |-> None,
     wait |-> None, due_utc |-> None, wait_utc |-> None, priority |-> None,
     x_properties |-> Some(to_string({})), categories |-> Some(to_string(<<>>)),
     url |-> None, attachments |-> Some(to_string(<<>>)), href |-> None,
     pending_action |-> Some("create"), last_synced |-> None, updated_at |-> Some(0),
     task_index |-> Some(index)]

Reverse(s) == [k \in 1..Len(s) |-> s[Len(s) + 1 - k]]

SeedTables ==
    LET asc(S) == SortSeq([k \in 1..Cardinality(S) |->
                              seed_row(CHOOSE i \in S : Cardinality({j \in S : j < i}) = k - 1)],
                          LAMBDA a, b : a.task_index[1] < b.task_index[1])
    IN  UNION {{asc(S), Reverse(asc(S))} : S \in SUBSET (1..MaxAllocIndex)}

InitAlloc ==
    /\ \E t \in SeedTables :
           db = [e \in StoreEnvs |-> IF e = "default" THEN [EmptyConn EXCEPT !.tasks = t]
                                     ELSE EmptyConn]
    /\ last = NoCommand
    /\ nops = MaxOps - 1

NextAlloc == Add("default", NoInput)

SpecAlloc == InitAlloc /\ [][NextAlloc]_vars

(***************************************************************************)
(* Every environment name, and Move between environments.                  *)
(***************************************************************************)
NextEnvs ==
    \/ \E e \in EnvNames : Add(e, NoInput)
    \/ \E e \in StoreEnvs : \E indices \in IndexLists(e) :
           Modify(e, indices, [NoChanges EXCEPT !.summary = Some("s3")])
    \/ \E e \in StoreEnvs : \E indices \in IndexLists(e) : Start(e, indices)
    \/ \E e \in StoreEnvs : \E indices \in IndexLists(e) : Stop(e, indices)
    \/ \E e \in StoreEnvs : \E indices \in IndexLists(e) : Do(e, indices)
    \/ \E e \in StoreEnvs : \E indices \in IndexLists(e) : Delete(e, indices)
    \/ \E e \in StoreEnvs, dest \in EnvNames : \E indices \in IndexLists(e) :
           Move(e, dest, indices)
    \/ \E e \in StoreEnvs : \E k \in 1..Len(db[e].tasks) : Sync(e, k)

SpecEnvs == Init /\ [][NextEnvs]_vars

(***************************************************************************)
(* Properties.  An action property reads the store before the command in   *)
(* the unprimed variables, and the command (its arguments, what it         *)
(* returned) and the store after it in the primed ones.                    *)
(***************************************************************************)
Out(l) == l.result.out[1]
Returned(l) == l.result.err = None
Count(s, x) == Cardinality({k \in 1..Len(s) : s[k] = x})
Uids(table) == {table[k].uid : k \in 1..Len(table)}
WithUid(table, uid) == {k \in 1..Len(table) : table[k].uid = uid}
RowsAt(conn, indices) == {r \in Range(conn.tasks) : r.task_index[1] \in Range(indices)}
StoredTags(row) == row.categories[1].json
ResultUids(l) == {t.uid : t \in Range(Out(l).tasks[1])}
SmallestFree(used) ==
    CHOOSE n \in 1..(Cardinality(used) + 1) : n \notin used /\ \A m \in 1..(n - 1) : m \in used
CarriedFields ==
    {"uid", "summary", "due", "wait", "due_utc", "wait_utc", "priority", "x_properties",
     "categories", "url", "attachments", "href", "last_synced", "task_index"}

\* C1: Create assigns the smallest positive integer that no active task of the
\* environment holds: 1 for the empty set, the first hole when there is one, N+1 when
\* the indices are exactly 1..N; the row it stores carries that index.
C1_CreateAssignsSmallestFree ==
    [][(last'.cmd = "add" /\ Returned(last')) =>
          LET used == ActiveIndices(db[last'.env])
              index == Out(last').index
          IN  /\ index = Some(SmallestFree(used))
              /\ (used = {} => index = Some(1))
              /\ (used = 1..Cardinality(used) => index = Some(Cardinality(used) + 1))
              /\ ActiveIndices(db'[last'.env]) = used \cup {index[1]}
              /\ Len(db'[last'.env].tasks) = Len(db[last'.env].tasks) + 1]_vars

\* C1 witness: Create on the indices {1,2,4,5} returned 3.
C1_Witness ==
    /\ last.cmd = "add"
    /\ Returned(last)
    /\ Out(last).index = Some(3)
    /\ ActiveIndices(db["default"]) = {1, 2, 3, 4, 5}

\* C2: in every environment, no two rows of the active set hold the same index.
C2_ActiveIndicesUnique ==
    \A e \in DOMAIN db : \A k, l \in 1..Len(db[e].tasks) :
        k # l => db[e].tasks[k].task_index # db[e].tasks[l].task_index

\* C2 witness: a Move brought a task into an environment that already had active
\* tasks, and the active set there holds two or more indices.
C2_Witness ==
    /\ last.cmd = "move"
    /\ Returned(last)
    /\ Out(last).tasks # Some(<<>>)
    /\ Len(db[last.dest_env[1]].tasks) >= 2

\* C3: Modify, Start and Stop leave a matched task's pending_action "create" when it
\* was "create", and set it to "update" when it was anything else.
C3_PendingCreatePreserved ==
    [][(last'.cmd \in {"modify", "start", "stop"} /\ Returned(last')) =>
          \A r \in RowsAt(db[last'.env], last'.indices) :
              /\ WithUid(db'[last'.env].tasks, r.uid) # {}
              /\ \A k \in WithUid(db'[last'.env].tasks, r.uid) :
                     db'[last'.env].tasks[k].pending_action =
                         IF r.pending_action = Some("create") THEN Some("create")
                         ELSE Some("update")]_vars

\* C3 witness: one Modify acted on a never-synced task, which stays "create", and on
\* a synced one, which is now "update".
C3_Witness ==
    /\ last.cmd = "modify"
    /\ Returned(last)
    /\ \E r1, r2 \in Range(db[last.env].tasks) :
           /\ {r1.uid, r2.uid} \subseteq ResultUids(last)
           /\ r1.pending_action = Some("create")
           /\ r2.pending_action = Some("update")
           /\ r2.last_synced # None

\* C4: Delete removes every matched task from the active set; a task whose
\* pending_action is "create" leaves nothing in the deleted set, any other task leaves
\* exactly one record there, with a deletion timestamp.
C4_DeleteTombstones ==
    [][(last'.cmd = "delete" /\ Returned(last')) =>
          LET before == db[last'.env]
              after == db'[last'.env]
              matched == RowsAt(before, last'.indices)
          IN  /\ \A r \in matched :
                     /\ r.uid \notin Uids(after.tasks)
                     /\ IF r.pending_action = Some("create")
                        THEN r.uid \notin Uids(after.deleted_tasks)
                        ELSE /\ Cardinality(WithUid(after.deleted_tasks, r.uid)) = 1
                             /\ \A k \in WithUid(after.deleted_tasks, r.uid) :
                                    /\ after.deleted_tasks[k].deleted_at # None
                                    /\ k > Len(before.deleted_tasks)
              /\ Len(after.deleted_tasks) =
                     Len(before.deleted_tasks)
                       + Cardinality({r \in matched : r.pending_action # Some("create")})]_vars

\* C4 witness: one Delete removed a never-synced task and a synced one, and the
\* deleted set holds the one tombstone.
C4_Witness ==
    /\ last.cmd = "delete"
    /\ Returned(last)
    /\ Len(Out(last).tasks[1]) = 2
    /\ Len(db[last.env].deleted_tasks) = 1
    /\ db[last.env].deleted_tasks[1].deleted_at # None
    /\ db[last.env].tasks = <<>>

\* C5: Complete removes every matched task from the active set and adds to the
\* completed set one record with the same uid, descriptive fields and index, status
\* COMPLETED, and pending_action "create" if it was "create", else "update".
C5_CompleteMovesRecord ==
    [][(last'.cmd = "do" /\ Returned(last')) =>
          LET before == db[last'.env]
              after == db'[last'.env]
              matched == RowsAt(before, last'.indices)
          IN  /\ \A r \in matched :
                     /\ r.uid \notin Uids(after.tasks)
                     /\ Cardinality(WithUid(after.completed_tasks, r.uid)) =
                            Cardinality(WithUid(before.completed_tasks, r.uid)) + 1
                     /\ \E k \in (Len(before.completed_tasks) + 1)..Len(after.completed_tasks) :
                            LET c == after.completed_tasks[k] IN
                            /\ \A f \in CarriedFields : c[f] = r[f]
                            /\ c.status = "COMPLETED"
                            /\ c.pending_action =
                                   IF r.pending_action = Some("create") THEN Some("create")
                                   ELSE Some("update")
              /\ Len(after.completed_tasks) =
                     Len(before.completed_tasks) + Cardinality(matched)
              /\ \A k \in 1..Len(before.completed_tasks) :
                     after.completed_tasks[k] = before.completed_tasks[k]]_vars

\* C5 witness: a synced task with tags and a project was completed; its record is in
\* the completed set with pending_action "update".
C5_Witness ==
    /\ last.cmd = "do"
    /\ Returned(last)
    /\ \E c \in Range(db[last.env].completed_tasks) :
           /\ c.uid \in ResultUids(last)
           /\ c.pending_action = Some("update")
           /\ c.last_synced # None
           /\ StoredTags(c) # <<>>

\* the tasks Complete and Delete are to return: for each index of the request that
\* matches an active task and has not occurred earlier in the request, the task as
\* it is read from the store before the command
RECURSIVE Snapshots(_, _, _)
Snapshots(conn, indices, k) ==
    IF k > Len(indices) THEN <<>>
    ELSE LET rows == SelectSeq(conn.tasks, LAMBDA r : r.task_index = Some(indices[k]))
             first == \A j \in 1..(k - 1) : indices[j] # indices[k]
         IN  (IF rows # <<>> /\ first THEN <<Task_from_row(rows[1])>> ELSE <<>>)
                 \o Snapshots(conn, indices, k + 1)

\* C6: Complete and Delete return, for every matched index, the task as it was
\* immediately before the transition (its status the one it had then), while the
\* record Complete stores has status COMPLETED.
C6_ResultIsSnapshotBefore ==
    [][(last'.cmd \in {"do", "delete"} /\ Returned(last')) =>
          /\ Out(last').tasks = Some(Snapshots(db[last'.env], last'.indices, 1))
          /\ last'.cmd = "do" =>
                 \A t \in Range(Out(last').tasks[1]) :
                     /\ WithUid(db'[last'.env].completed_tasks, t.uid) # {}
                     /\ \A k \in WithUid(db'[last'.env].completed_tasks, t.uid) :
                            db'[last'.env].completed_tasks[k].status = "COMPLETED"]_vars

\* C6 witness: Complete returned a task with status IN-PROCESS whose stored record
\* has status COMPLETED.
C6_Witness ==
    /\ last.cmd = "do"
    /\ Returned(last)
    /\ \E t \in Range(Out(last).tasks[1]) :
           /\ t.status = "IN-PROCESS"
           /\ \E c \in Range(db[last.env].completed_tasks) :
                  c.uid = t.uid /\ c.status = "COMPLETED"

\* C7: in every environment no uid is in both the active and the completed set, and
\* no uid occurs twice within either.
C7_OneLiveRecordPerUid ==
    \A e \in DOMAIN db :
        /\ Uids(db[e].tasks) \cap Uids(db[e].completed_tasks) = {}
        /\ Cardinality(Uids(db[e].tasks)) = Len(db[e].tasks)
        /\ Cardinality(Uids(db[e].completed_tasks)) = Len(db[e].completed_tasks)

\* C7 witness: after a Complete, the environment holds active and completed records.
C7_Witness ==
    /\ last.cmd = "do"
    /\ Returned(last)
    /\ Out(last).tasks # Some(<<>>)
    /\ db[last.env].tasks # <<>>
    /\ Len(db[last.env].completed_tasks) >= 2

IndexCommands == {"modify", "start", "stop", "do", "delete"}

\* C8: a command over a list of indices returns success whether or not every index
\* matches: its result holds the tasks of the matched indices and no other (one per
\* matched index when no index is listed twice), rows at other indices are
\* unchanged, and when nothing matches the store is unchanged.
C8_UnmatchedIndexIsNoError ==
    [][last'.cmd \in IndexCommands =>
          LET before == db[last'.env]
              after == db'[last'.env]
              indices == last'.indices
              matched == RowsAt(before, indices)
          IN  /\ Returned(last')
              /\ Out(last').success
              /\ Out(last').error = None
              /\ IsSome(Out(last').tasks)
              /\ ResultUids(last') = {r.uid : r \in matched}
              /\ Cardinality(Range(indices)) = Len(indices) =>
                     Len(Out(last').tasks[1]) = Cardinality(matched)
              /\ SelectSeq(after.tasks, LAMBDA r : r.task_index[1] \notin Range(indices))
                     = SelectSeq(before.tasks, LAMBDA r : r.task_index[1] \notin Range(indices))
              /\ matched = {} => db' = db]_vars

\* C8 witness: Modify over two different indices of which one matches returned
\* success and one task.
C8_Witness ==
    /\ last.cmd = "modify"
    /\ Returned(last)
    /\ Out(last).success
    /\ Len(last.indices) = 2
    /\ last.indices[1] # last.indices[2]
    /\ Len(Out(last).tasks[1]) = 1
    /\ db[last.env].tasks # <<>>

\* C9: in one Modify the additive set is applied before the subtractive one: a tag
\* of the subtractive set is absent afterwards (also when it is in the additive set,
\* and whether or not the task had it); a tag of the additive set alone occurs as
\* often as before when the task had it, and once when it had not.
C9_TagsAddThenRemove ==
    [][(last'.cmd = "modify" /\ Returned(last')) =>
          LET add == Range(unwrap_or(last'.changes[1].add_tags, <<>>))
              remove == Range(unwrap_or(last'.changes[1].remove_tags, <<>>))
          IN  \A r \in RowsAt(db[last'.env], last'.indices) :
                  \A k \in WithUid(db'[last'.env].tasks, r.uid) :
                      LET old == StoredTags(r)
                          new == StoredTags(db'[last'.env].tasks[k])
                      IN  \A t \in add \cup remove :
                              IF t \in remove THEN Count(new, t) = 0
                              ELSE Count(new, t) =
                                       IF Count(old, t) > 0 THEN Count(old, t) ELSE 1]_vars

\* C9 witness: a Modify adding "a" and "c" and removing "a" acted on a task that had
\* "a" (twice) and "b": it now has "b" and "c" and no "a".
C9_Witness ==
    /\ last.cmd = "modify"
    /\ Returned(last)
    /\ last.changes[1].add_tags = Some(<<"a", "c">>)
    /\ last.changes[1].remove_tags = Some(<<"a">>)
    /\ \E r \in Range(db[last.env].tasks) :
           /\ r.uid \in ResultUids(last)
           /\ StoredTags(r) = <<"b", "c">>

\* C10: the stored tags of every active task list no tag twice.
C10_NoDuplicateTags ==
    \A e \in DOMAIN db : \A r \in Range(db[e].tasks) :
        \A t \in Range(StoredTags(r)) : Count(StoredTags(r), t) = 1

(***************************************************************************)
(* Requests that name the status COMPLETED in a Create or a Modify.        *)
(* add_task and modify_single_task store the status string they are given. *)
(***************************************************************************)
CompletedInput == [NoInput EXCEPT !.status = Some("COMPLETED")]
CompletedChanges == [NoChanges EXCEPT !.status = Some("COMPLETED")]

NextStatus ==
    \/ \E input \in {NoInput, CompletedInput} : Add("default", input)
    \/ \E indices \in IndexLists("default") : Modify("default", indices, CompletedChanges)
    \/ \E indices \in IndexLists("default") : Start("default", indices)
    \/ \E indices \in IndexLists("default") : Stop("default", indices)
    \/ \E indices \in IndexLists("default") : Do("default", indices)
    \/ \E indices \in IndexLists("default") : Delete("default", indices)

SpecStatus == Init /\ [][NextStatus]_vars

\* C11: completed tasks exist only in the completed set: no row of an active set has
\* the status COMPLETED, and every row of a completed set has the status COMPLETED.
C11_CompletedOnlyInCompletedSet ==
    \A e \in DOMAIN db :
        /\ \A r \in Range(db[e].tasks) : r.status # "COMPLETED"
        /\ \A r \in Range(db[e].completed_tasks) : r.status = "COMPLETED"

(***************************************************************************)
(* The transaction log.  main.rs calls mutations::log_transaction and      *)
(* mutations::pop_transaction, which the sources at hand do not contain;   *)
(* the two are modelled from the contract of the transaction log: push     *)
(* appends one record (operation name, opaque payload) and trims the log   *)
(* to the cap most recent records, pop removes and returns the most recent *)
(* record or reports that there is none.  A cap is a count: max_entries    *)
(* is drawn from 0..MaxCap, or omitted.                                    *)
(***************************************************************************)
MaxCap == 2
DefaultMaxEntries == 100

Min(a, b) == IF a <= b THEN a ELSE b

LogEntry(operation, diff_json) == [operation |-> operation, diff_json |-> diff_json]

\* the mutant: the trim keeps the oldest records
log_transaction_keep_oldest(conn, diff_json, operation, max_entries) ==
    LET appended == Append(conn.transaction_log, LogEntry(operation, diff_json))
        keep == Min(max_entries, Len(appended))
    IN  [conn |-> [conn EXCEPT !.transaction_log = SubSeq(appended, 1, keep)],
         result |-> [success |-> TRUE]]

log_transaction(conn, diff_json, operation, max_entries) ==
    LET appended == Append(conn.transaction_log, LogEntry(operation, diff_json))
        keep == Min(max_entries, Len(appended))
    IN  [conn |-> [conn EXCEPT !.transaction_log =
                       SubSeq(appended, Len(appended) - keep + 1, Len(appended))],
         result |-> [success |-> TRUE]]

\* the mutant: the oldest record is popped
pop_transaction_oldest(conn) ==
    LET log == conn.transaction_log IN
    IF log = <<>> THEN [conn |-> conn, result |-> [success |-> TRUE, entry |-> None]]
    ELSE [conn |-> [conn EXCEPT !.transaction_log = Tail(log)],
          result |-> [success |-> TRUE, entry |-> Some(Head(log))]]

pop_transaction(conn) ==
    LET log == conn.transaction_log IN
    IF log = <<>> THEN [conn |-> conn, result |-> [success |-> TRUE, entry |-> None]]
    ELSE [conn |-> [conn EXCEPT !.transaction_log = SubSeq(log, 1, Len(log) - 1)],
          result |-> [success |-> TRUE, entry |-> Some(log[Len(log)])]]

LogArgs(diff_json, operation, max_entries) ==
    [diff_json |-> diff_json, operation |-> operation, max_entries |-> max_entries]

LogTransaction(e, diff_json, operation, max_entries) ==
    /\ nops < MaxOps
    /\ nops' = nops + 1
    /\ LET args == Some(LogArgs(diff_json, operation, max_entries)) IN
       IF ~Database_open(e)
       THEN /\ db' = db
            /\ last' = Command("log_transaction", e, None, <<>>, args, None,
                               Err("Database not found"))
       ELSE IF ~IsSome(diff_json)
       THEN /\ db' = db
            /\ last' = Command("log_transaction", e, None, <<>>, args, None,
                               Err("Missing 'diff_json' field"))
       ELSE IF ~IsSome(operation)
       THEN /\ db' = db
            /\ last' = Command("log_transaction", e, None, <<>>, args, None,
                               Err("Missing 'operation' field"))
       ELSE LET r == log_transaction(db[e], diff_json[1], operation[1],
                                     unwrap_or(max_entries, DefaultMaxEntries))
            IN  /\ db' = [db EXCEPT ![e] = r.conn]
                /\ last' = Command("log_transaction", e, None, <<>>, args, None,
                                   Ok(r.result))

PopTransaction(e) ==
    /\ nops < MaxOps
    /\ nops' = nops + 1
    /\ IF ~Database_open(e)
       THEN /\ db' = db
            /\ last' = Command("pop_transaction", e, None, <<>>, None, None,
                               Err("Database not found"))
       ELSE LET r == pop_transaction(db[e])
            IN  /\ db' = [db EXCEPT ![e] = r.conn]
                /\ last' = Command("pop_transaction", e, None, <<>>, None, None,
                                   Ok(r.result))

DiffJsons == {None, Some("d1"), Some("d2")}
Operations == {None, Some("add")}
MaxEntries == {None} \cup {Some(c) : c \in 0..MaxCap}

NextLog ==
    \/ \E d \in DiffJsons, o \in Operations, c \in MaxEntries :
           LogTransaction("default", d, o, c)
    \/ PopTransaction("default")

SpecLog == Init /\ [][NextLog]_vars

\* C12: after every push(entry, cap) the transaction log holds at most cap entries,
\* and they are exactly the most recently pushed ones in insertion order: the log
\* before the push followed by the new entry, with the oldest entries discarded.
C12_PushKeepsMostRecent ==
    [][(last'.cmd = "log_transaction" /\ Returned(last')) =>
          LET args == last'.input[1]
              cap == unwrap_or(args.max_entries, DefaultMaxEntries)
              new == db'[last'.env].transaction_log
              all == Append(db[last'.env].transaction_log,
                            LogEntry(args.operation[1], args.diff_json[1]))
          IN  /\ Len(new) <= cap
              /\ Len(new) = Min(cap, Len(all))
              /\ \A k \in 1..Len(new) : new[k] = all[Len(all) - Len(new) + k]]_vars

\* C12 witness: a push of "d2" with cap 2 left the log with the two entries "d1",
\* "d2" after three or more operations.
C12_Witness ==
    /\ last.cmd = "log_transaction"
    /\ Returned(last)
    /\ last.input[1].max_entries = Some(2)
    /\ nops >= 4
    /\ db[last.env].transaction_log = <<LogEntry("add", "d1"), LogEntry("add", "d2")>>

\* C13: pop() on a non-empty transaction log removes and returns the most recently
\* pushed entry still in the log and shrinks the log by exactly one; pop() on an
\* empty log returns the empty signal and leaves the log empty.
C13_PopReturnsMostRecent ==
    [][(last'.cmd = "pop_transaction" /\ Returned(last')) =>
          LET old == db[last'.env].transaction_log
              new == db'[last'.env].transaction_log
          IN  IF old = <<>>
              THEN new = <<>> /\ Out(last').entry = None
              ELSE /\ Out(last').entry = Some(old[Len(old)])
                   /\ Len(new) = Len(old) - 1
                   /\ new = SubSeq(old, 1, Len(old) - 1)]_vars

\* C13 witness: a pop returned the entry "d2" and left the older entry "d1" in the log.
C13_Witness ==
    /\ last.cmd = "pop_transaction"
    /\ Returned(last)
    /\ Out(last).entry = Some(LogEntry("add", "d2"))
    /\ db[last.env].transaction_log = <<LogEntry("add", "d1")>>

\* C14: after a Move that returns successfully, each matched task is absent from the
\* source active set and present once in the destination active set with the same
\* uid, under the index the allocator gives against the destination's active set as
\* it stands when the task arrives: the smallest index free there, whatever the
\* task's index in the source was.
C14_MoveAllocatesInDestination ==
    [][(last'.cmd = "move" /\ Returned(last')) =>
          LET e == last'.env
              d == last'.dest_env[1]
              moved == Out(last').tasks[1]
          IN  /\ {moved[k].uid : k \in 1..Len(moved)} =
                     {r.uid : r \in RowsAt(db[e], last'.indices)}
              /\ \A r \in RowsAt(db[e], last'.indices) :
                     /\ r.uid \notin Uids(db'[e].tasks)
                     /\ Cardinality(WithUid(db'[d].tasks, r.uid)) = 1
              /\ \A k \in 1..Len(moved) :
                     LET used == ActiveIndices(db[d]) \cup
                                     {moved[j].index : j \in 1..(k - 1)}
                     IN  /\ moved[k].index = SmallestFree(used)
                         /\ \A j \in WithUid(db'[d].tasks, moved[k].uid) :
                                db'[d].tasks[j].task_index = Some(moved[k].index)]_vars

\* C14 witness: the task at index 2 of one environment moved to an environment with
\* an empty active set and arrived there under index 1.
C14_Witness ==
    /\ last.cmd = "move"
    /\ Returned(last)
    /\ last.indices = <<2>>
    /\ Len(Out(last).tasks[1]) = 1
    /\ Out(last).tasks[1][1].index = 1
    /\ ActiveIndices(db[last.dest_env[1]]) = {1}
    /\ \E r \in Range(db[last.dest_env[1]].tasks) :
           r.uid = Out(last).tasks[1][1].uid /\ r.task_index = Some(1)

(***************************************************************************)
(* A Move whose process dies.  A Move is two independent local writes per  *)
(* matched index, the destination insert and then the source delete, with  *)
(* no transaction around them (modelled from the specification of Move, as *)
(* move_tasks is): the process can die before the k-th index is touched    *)
(* or between its two writes, and the stores keep what was written.        *)
(***************************************************************************)
\* the mutant: the source delete comes first
move_half_done_delete_first(src, dest, index) ==
    [src |-> [src EXCEPT !.tasks = delete_where_task_index(@, index)], dest |-> dest]

move_half_done(src, dest, index) ==
    LET rows == SelectSeq(src.tasks, LAMBDA r : r.task_index = Some(index)) IN
    IF rows = <<>> THEN [src |-> src, dest |-> dest]
    ELSE LET moved == [rows[1] EXCEPT !.task_index = Some(next_available_index(dest))]
         IN  [src |-> src, dest |-> [dest EXCEPT !.tasks = Append(@, moved)]]

CrashSteps == {"before", "between"}

move_tasks_crash(src, dest, indices, k, step) ==
    LET done == move_loop(src, dest, SubSeq(indices, 1, k - 1), 1, <<>>) IN
    IF step = "between" THEN move_half_done(done.src, done.dest, indices[k])
    ELSE [src |-> done.src, dest |-> done.dest]

Crashed(k, step) == [err |-> Some("process died"), out |-> None, at |-> k, step |-> step]

MoveCrash(e, dest, indices, k, step) ==
    /\ nops < MaxOps
    /\ nops' = nops + 1
    /\ dest # e
    /\ Database_open(e) /\ Database_open(dest)
    /\ k \in 1..(Len(indices) + 1)
    /\ step = "between" => k <= Len(indices)
    /\ LET r == move_tasks_crash(db[e], db[dest], indices, k, step) IN
       /\ db' = [db EXCEPT ![e] = r.src, ![dest] = r.dest]
       /\ last' = Command("move", e, Some(dest), indices, None, None, Crashed(k, step))

NextCrash ==
    \/ \E e \in StoreEnvs : Add(e, NoInput)
    \/ \E e \in StoreEnvs, dest \in StoreEnvs : \E indices \in IndexLists(e) :
           Move(e, dest, indices)
    \/ \E e \in StoreEnvs, dest \in StoreEnvs : \E indices \in IndexLists(e) :
           \E k \in 1..(Len(indices) + 1), step \in CrashSteps :
               MoveCrash(e, dest, indices, k, step)

SpecCrash == Init /\ [][NextCrash]_vars

\* C15: Move writes the destination before it deletes from the source: when the
\* process dies during a Move, no matched task is missing from both environments'
\* active sets, and when it dies between the two writes of a matched task, that task
\* is in both environments' active sets.
C15_MoveCrashNeverLosesTask ==
    [][(last'.cmd = "move" /\ last'.result.err = Some("process died")) =>
          LET e == last'.env
              d == last'.dest_env[1]
              indices == last'.indices
              k == last'.result.at
          IN  /\ \A r \in RowsAt(db[e], indices) :
                     r.uid \in Uids(db'[e].tasks) \cup Uids(db'[d].tasks)
              /\ last'.result.step = "between" =>
                     \A r \in RowsAt(db[e], <<indices[k]>>) :
                         indices[k] \notin Range(SubSeq(indices, 1, k - 1)) =>
                             /\ r.uid \in Uids(db'[e].tasks)
                             /\ r.uid \in Uids(db'[d].tasks)]_vars

\* C15 witness: a Move died between the two writes of a matched task, and the task
\* is in the active sets of both environments.
C15_Witness ==
    /\ last.cmd = "move"
    /\ last.result.err = Some("process died")
    /\ last.result.step = "between"
    /\ \E r \in RowsAt(db[last.env], <<last.indices[last.result.at]>>) :
           r.uid \in Uids(db[last.dest_env[1]].tasks)

(***************************************************************************)
(* Two processes that race to Create in one environment.  add_task reads   *)
(* the free index and then inserts, in two statements with no transaction  *)
(* around them (mutations.rs:98 and :114), so both processes can read the  *)
(* same index before either writes.  The store serializes the two inserts. *)
(* The schema of the tasks table is not among the sources at hand; what    *)
(* the store does with an insert under an index an active row holds is     *)
(* modelled from the concurrency model of the specification: the insert    *)
(* fails with a constraint violation.                                      *)
(***************************************************************************)
\* the mutant: the store accepts a second row under the same index
tasks_insert_unconstrained(conn, row) ==
    [conn |-> [conn EXCEPT !.tasks = Append(@, row)], ok |-> TRUE]

tasks_insert(conn, row) ==
    IF \E r \in Range(conn.tasks) : r.task_index = row.task_index
    THEN [conn |-> conn, ok |-> FALSE]
    ELSE [conn |-> [conn EXCEPT !.tasks = Append(@, row)], ok |-> TRUE]

\* the second process: add_task as it runs on the store it read, its INSERT executed
\* on the store the first process has written to
add_task_after(read, written, input, uid, now) ==
    LET r == add_task(read, input, uid, now)
        ins == tasks_insert(written, r.conn.tasks[Len(r.conn.tasks)])
    IN  [conn |-> ins.conn,
         result |-> IF ins.ok
                    THEN Ok(MutationResult(get_task_by_uid(ins.conn, uid), None,
                                           r.result.index))
                    ELSE Err("constraint violation")]

AddRace(e, input1, input2) ==
    /\ nops + 1 < MaxOps
    /\ nops' = nops + 2
    /\ Database_open(e)
    /\ LET first == add_task(db[e], input1, nops + 1, nops + 1)
           second == add_task_after(db[e], first.conn, input2, nops + 2, nops + 2)
       IN  /\ db' = [db EXCEPT ![e] = second.conn]
           /\ last' = Command("add", e, None, <<>>, Some(input2), None,
                              [err |-> second.result.err, out |-> second.result.out,
                               raced |-> Some(first.result)])

NextRace ==
    \/ Add("default", NoInput)
    \/ \E indices \in IndexLists("default") : Delete("default", indices)
    \/ \E input1, input2 \in TaskInputs : AddRace("default", input1, input2)

SpecRace == Init /\ [][NextRace]_vars

\* C16: when two processes race to Create a task in the same environment and both
\* read the same free index, at most one of the two writes succeeds with that index,
\* and the active set does not end up with two tasks holding the same index.
C16_RacingCreatesShareNoIndex ==
    [][(last'.cmd = "add" /\ "raced" \in DOMAIN last'.result) =>
          LET read == next_available_index(db[last'.env])
              first == last'.result.raced[1]
              tasks == db'[last'.env].tasks
          IN  /\ first.index = Some(read)
              /\ Returned(last') => Out(last').index # Some(read)
              /\ Cardinality({k \in 1..Len(tasks) : tasks[k].task_index = Some(read)}) = 1
              /\ \A k, l \in 1..Len(tasks) :
                     k # l => tasks[k].task_index # tasks[l].task_index]_vars

\* C16 witness: two racing Creates both read the free index 2 of an active set
\* holding index 1; the first holds index 2 and the second failed.
C16_Witness ==
    /\ last.cmd = "add"
    /\ "raced" \in DOMAIN last.result
    /\ last.result.raced[1].index = Some(2)
    /\ ~Returned(last)
    /\ ActiveIndices(db[last.env]) = {1, 2}
    /\ Len(db[last.env].tasks) = 2

(***************************************************************************)
(* Storage errors in a batch.  The loops of modify_tasks, complete_tasks   *)
(* and delete_tasks call the single-task function with `?`: the first Err  *)
(* leaves the loop and the function.  No statement runs in a transaction,  *)
(* so every statement that succeeded stays.  The error is raised while the *)
(* k-th index is processed, either by its first statement (the SELECT:     *)
(* nothing of the k-th is written) or by its last (the writes before it    *)
(* are kept).                                                              *)
(***************************************************************************)
FaultStages == {"first", "last"}

StorageError(k, stage) ==
    [err |-> Some("storage error"), out |-> None, at |-> k, stage |-> stage]

\* modify_single_task: the last statement is the SELECT of get_task_by_uid
modify_single_task_failing(conn, index, changes, now, stage) ==
    IF stage = "first" THEN conn ELSE modify_single_task(conn, index, changes, now).conn

\* complete_single_task: the last statement is the DELETE, the INSERT is kept
complete_single_task_failing(conn, index, now, stage) ==
    IF stage = "first" THEN conn
    ELSE [conn EXCEPT !.completed_tasks =
                          complete_single_task(conn, index, now).conn.completed_tasks]

\* delete_single_task: the last statement is the DELETE, the tombstone is kept
delete_single_task_failing(conn, index, now, stage) ==
    IF stage = "first" THEN conn
    ELSE [conn EXCEPT !.deleted_tasks =
                          delete_single_task(conn, index, now).conn.deleted_tasks]

modify_tasks_failing(conn, indices, changes, now, k, stage) ==
    LET done == modify_loop(conn, SubSeq(indices, 1, k - 1), 1, changes, now, <<>>)
    IN  [conn |-> modify_single_task_failing(done.conn, indices[k], changes, now, stage),
         result |-> StorageError(k, stage)]

\* the mutant: the batch is one transaction, which the error rolls back
complete_tasks_failing_rollback(conn, indices, now, k, stage) ==
    [conn |-> conn, result |-> StorageError(k, stage)]

complete_tasks_failing(conn, indices, now, k, stage) ==
    LET done == complete_loop(conn, SubSeq(indices, 1, k - 1), 1, now, <<>>)
    IN  [conn |-> complete_single_task_failing(done.conn, indices[k], now, stage),
         result |-> StorageError(k, stage)]

delete_tasks_failing(conn, indices, now, k, stage) ==
    LET done == delete_loop(conn, SubSeq(indices, 1, k - 1), 1, now, <<>>)
    IN  [conn |-> delete_single_task_failing(done.conn, indices[k], now, stage),
         result |-> StorageError(k, stage)]

ModifyFailing(e, indices, changes, k, stage) ==
    /\ nops < MaxOps
    /\ nops' = nops + 1
    /\ Database_open(e)
    /\ k \in 1..Len(indices)
    /\ LET r == modify_tasks_failing(db[e], indices, changes, now_timestamp, k, stage) IN
       /\ db' = [db EXCEPT ![e] = r.conn]
       /\ last' = Command("modify", e, None, indices, None, Some(changes), r.result)

DoFailing(e, indices, k, stage) ==
    /\ nops < MaxOps
    /\ nops' = nops + 1
    /\ Database_open(e)
    /\ k \in 1..Len(indices)
    /\ LET r == complete_tasks_failing(db[e], indices, now_timestamp, k, stage) IN
       /\ db' = [db EXCEPT ![e] = r.conn]
       /\ last' = Command("do", e, None, indices, None, None, r.result)

DeleteFailing(e, indices, k, stage) ==
    /\ nops < MaxOps
    /\ nops' = nops + 1
    /\ Database_open(e)
    /\ k \in 1..Len(indices)
    /\ LET r == delete_tasks_failing(db[e], indices, now_timestamp, k, stage) IN
       /\ db' = [db EXCEPT ![e] = r.conn]
       /\ last' = Command("delete", e, None, indices, None, None, r.result)

FaultChanges == [NoChanges EXCEPT !.summary = Some("s3")]

NextFault ==
    \/ Add("default", NoInput)
    \/ \E k \in 1..MaxOps : Sync("default", k)
    \/ \E indices \in IndexLists("default") : \E k \in 1..Len(indices), stage \in FaultStages :
           ModifyFailing("default", indices, FaultChanges, k, stage)
    \/ \E indices \in IndexLists("default") : \E k \in 1..Len(indices), stage \in FaultStages :
           DoFailing("default", indices, k, stage)
    \/ \E indices \in IndexLists("default") : \E k \in 1..Len(indices), stage \in FaultStages :
           DeleteFailing("default", indices, k, stage)

SpecFault == Init /\ [][NextFault]_vars

\* C17: when a storage error occurs while a Modify, Complete or Delete over several
\* indices is processing the k-th index, the operation returns an error and no
\* result; the tasks at the indices after k (that are not also among the first k)
\* are left as they were in every table, and the effects applied to the tasks at
\* the indices before k remain in the store.
C17_BatchErrorKeepsEarlierEffects ==
    [][(last'.cmd \in {"modify", "do", "delete"}
           /\ last'.result.err = Some("storage error")) =>
          LET e == last'.env
              k == last'.result.at
              upto == SubSeq(last'.indices, 1, k)
              before == SubSeq(last'.indices, 1, k - 1)
          IN  /\ last'.result.out = None
              /\ \A r \in Range(db[e].tasks) :
                     r.task_index[1] \notin Range(upto) =>
                         /\ r \in Range(db'[e].tasks)
                         /\ WithUid(db'[e].completed_tasks, r.uid) =
                                WithUid(db[e].completed_tasks, r.uid)
                         /\ WithUid(db'[e].deleted_tasks, r.uid) =
                                WithUid(db[e].deleted_tasks, r.uid)
              /\ \A r \in RowsAt(db[e], before) :
                     CASE last'.cmd = "modify" ->
                              \A j \in WithUid(db'[e].tasks, r.uid) :
                                  /\ db'[e].tasks[j].summary = "s3"
                                  /\ db'[e].tasks[j].updated_at = Some(nops')
                       [] last'.cmd = "do" ->
                              /\ r.uid \notin Uids(db'[e].tasks)
                              /\ r.uid \in Uids(db'[e].completed_tasks)
                       [] last'.cmd = "delete" ->
                              /\ r.uid \notin Uids(db'[e].tasks)
                              /\ r.pending_action # Some("create") =>
                                     r.uid \in Uids(db'[e].deleted_tasks)]_vars

\* C17 witness: a Complete of two indices failed at the second; the task at the
\* first index is in the completed set and the task at the second is still active.
C17_Witness ==
    /\ last.cmd = "do"
    /\ last.result.err = Some("storage error")
    /\ last.result.at = 2
    /\ last.indices = <<1, 2>>
    /\ ActiveIndices(db[last.env]) = {2}
    /\ \E c \in Range(db[last.env].completed_tasks) : c.task_index = Some(1)

(***************************************************************************)
(* Request payloads as JSON.  handle_json_command opens the store, then    *)
(* deserializes "task" and "changes" with serde_json::from_value(..)? (an  *)
(* Err leaves the handler) and "indices" with from_value(..).ok() and      *)
(* unwrap_or_default() (an Err becomes the empty list).  A JSON value is   *)
(* absent, a string, a number, an array of strings or an array of numbers. *)
(***************************************************************************)
JValue(kind, str, num, strs, nums) ==
    [kind |-> kind, str |-> str, num |-> num, strs |-> strs, nums |-> nums]
JAbsent == JValue("absent", "", 0, <<>>, <<>>)
JString(s) == JValue("string", s, 0, <<>>, <<>>)
JNumber(n) == JValue("number", "", n, <<>>, <<>>)
JStrings(a) == JValue("strings", "", 0, a, <<>>)
JNumbers(a) == JValue("numbers", "", 0, <<>>, a)

\* Option<String>, Option<i32>, Option<Vec<String>> with #[serde(default)]
is_opt_string(v) == v.kind \in {"absent", "string"}
is_opt_i32(v) == v.kind \in {"absent", "number"}
is_opt_strings(v) == v.kind \in {"absent", "strings"}
opt_string(v) == IF v.kind = "string" THEN Some(v.str) ELSE None
opt_i32(v) == IF v.kind = "number" THEN Some(v.num) ELSE None
opt_strings(v) == IF v.kind = "strings" THEN Some(v.strs) ELSE None

EmptyObject ==
    [summary |-> JAbsent, status |-> JAbsent, due |-> JAbsent, wait |-> JAbsent,
     priority |-> JAbsent, project |-> JAbsent, tags |-> JAbsent, add_tags |-> JAbsent,
     remove_tags |-> JAbsent, url |-> JAbsent]

\* serde_json::from_value::<TaskInput>: summary is required
TaskInput_is_valid(obj) ==
    /\ obj.summary.kind = "string"
    /\ is_opt_string(obj.status) /\ is_opt_string(obj.due) /\ is_opt_string(obj.wait)
    /\ is_opt_i32(obj.priority) /\ is_opt_string(obj.project)
    /\ is_opt_strings(obj.tags) /\ is_opt_string(obj.url)

TaskInput_from_value(obj) ==
    [summary |-> obj.summary.str, status |-> opt_string(obj.status),
     due |-> opt_string(obj.due), wait |-> opt_string(obj.wait),
     priority |-> opt_i32(obj.priority), project |-> opt_string(obj.project),
     tags |-> opt_strings(obj.tags), url |-> opt_string(obj.url)]

\* serde_json::from_value::<TaskChanges>: every field is optional
TaskChanges_is_valid(obj) ==
    /\ is_opt_string(obj.summary) /\ is_opt_string(obj.status)
    /\ is_opt_string(obj.due) /\ is_opt_string(obj.wait)
    /\ is_opt_i32(obj.priority) /\ is_opt_string(obj.project)
    /\ is_opt_strings(obj.add_tags) /\ is_opt_strings(obj.remove_tags)
    /\ is_opt_string(obj.url)

TaskChanges_from_value(obj) ==
    [summary |-> opt_string(obj.summary), status |-> opt_string(obj.status),
     due |-> opt_string(obj.due), wait |-> opt_string(obj.wait),
     priority |-> opt_i32(obj.priority), project |-> opt_string(obj.project),
     add_tags |-> opt_strings(obj.add_tags), remove_tags |-> opt_strings(obj.remove_tags),
     url |-> opt_string(obj.url)]

\* command.get("indices").and_then(|v| from_value(v.clone()).ok()).unwrap_or_default()
indices_from_value(v) == IF v.kind = "numbers" THEN v.nums ELSE <<>>

CommandJson(cmd, e, indices, input, changes, result, raw) ==
    [cmd |-> cmd, env |-> e, dest_env |-> None, indices |-> indices, input |-> input,
     changes |-> changes, result |-> result, raw |-> raw]

RawPayload(task, indices, changes) == [task |-> task, indices |-> indices, changes |-> changes]

AddJson(e, task) ==
    /\ nops < MaxOps
    /\ nops' = nops + 1
    /\ LET raw == RawPayload(task, JAbsent, None) IN
       IF ~Database_open(e)
       THEN /\ db' = db
            /\ last' = CommandJson("add", e, <<>>, None, None, Err("Database not found"), raw)
       ELSE IF ~IsSome(task)
       THEN /\ db' = db
            /\ last' = CommandJson("add", e, <<>>, None, None, Err("Missing 'task' field"), raw)
       ELSE IF ~TaskInput_is_valid(task[1])
       THEN /\ db' = db
            /\ last' = CommandJson("add", e, <<>>, None, None, Err("invalid task"), raw)
       ELSE LET input == TaskInput_from_value(task[1])
                r == add_task(db[e], input, Uuid_new_v4, now_timestamp)
            IN  /\ db' = [db EXCEPT ![e] = r.conn]
                /\ last' = CommandJson("add", e, <<>>, Some(input), None, Ok(r.result), raw)

ModifyJson(e, indices_json, changes_json) ==
    /\ nops < MaxOps
    /\ nops' = nops + 1
    /\ LET raw == RawPayload(None, indices_json, changes_json)
           indices == indices_from_value(indices_json)
           obj == unwrap_or(changes_json, EmptyObject)
       IN
       IF ~Database_open(e)
       THEN /\ db' = db
            /\ last' = CommandJson("modify", e, <<>>, None, None,
                                   Err("Database not found"), raw)
       ELSE IF ~TaskChanges_is_valid(obj)
       THEN /\ db' = db
            /\ last' = CommandJson("modify", e, indices, None, None,
                                   Err("invalid changes"), raw)
       ELSE LET changes == TaskChanges_from_value(obj)
                r == modify_tasks(db[e], indices, changes, now_timestamp)
            IN  /\ db' = [db EXCEPT ![e] = r.conn]
                /\ last' = CommandJson("modify", e, indices, None, Some(changes),
                                       Ok(r.result), raw)

DoJson(e, indices_json) ==
    /\ nops < MaxOps
    /\ nops' = nops + 1
    /\ LET raw == RawPayload(None, indices_json, None)
           indices == indices_from_value(indices_json)
       IN
       IF ~Database_open(e)
       THEN /\ db' = db
            /\ last' = CommandJson("do", e, <<>>, None, None, Err("Database not found"), raw)
       ELSE LET r == complete_tasks(db[e], indices, now_timestamp)
            IN  /\ db' = [db EXCEPT ![e] = r.conn]
                /\ last' = CommandJson("do", e, indices, None, None, Ok(r.result), raw)

TaskJsons ==
    { None,
      Some([EmptyObject EXCEPT !.summary = JString("s1")]),
      Some([EmptyObject EXCEPT !.priority = JNumber(1)]),
      Some([EmptyObject EXCEPT !.summary = JNumber(1)]),
      Some([EmptyObject EXCEPT !.summary = JString("s1"), !.priority = JString("high")]) }

ChangesJsons ==
    { None,
      Some([EmptyObject EXCEPT !.summary = JString("s3")]),
      Some([EmptyObject EXCEPT !.summary = JString("s3"), !.add_tags = JString("a")]) }

IndicesJsons(e) ==
    {JAbsent, JString("1"), JStrings(<<"1">>)} \cup {JNumbers(l) : l \in IndexLists(e)}

NextJson ==
    \/ \E task \in TaskJsons : AddJson("default", task)
    \/ \E indices \in IndicesJsons("default"), changes \in ChangesJsons :
           ModifyJson("default", indices, changes)
    \/ \E indices \in IndicesJsons("default") : DoJson("default", indices)

SpecJson == Init /\ [][NextJson]_vars

Malformed(raw) ==
    \/ IsSome(raw.task) /\ ~TaskInput_is_valid(raw.task[1])
    \/ IsSome(raw.changes) /\ ~TaskChanges_is_valid(raw.changes[1])
    \/ raw.indices.kind \notin {"absent", "numbers"}

\* C18: a malformed input payload (a missing required field such as the task
\* summary, or a field of the wrong type, a wrongly typed indices list included)
\* fails the whole operation with an error, and the store is left as it was.
C18_MalformedPayloadFails ==
    [][("raw" \in DOMAIN last' /\ Malformed(last'.raw)) =>
          (~Returned(last') /\ db' = db)]_vars

(***************************************************************************)
(* Requests that name an environment without a store: every command on it, *)
(* and Move from and to it.                                                *)
(***************************************************************************)
NextMissing ==
    \/ \E e \in EnvNames : Add(e, NoInput)
    \/ \E indices \in IndexLists("ghost") : Modify("ghost", indices, FaultChanges)
    \/ \E indices \in IndexLists("ghost") : Start("ghost", indices)
    \/ \E indices \in IndexLists("ghost") : Stop("ghost", indices)
    \/ \E indices \in IndexLists("ghost") : Do("ghost", indices)
    \/ \E indices \in IndexLists("ghost") : Delete("ghost", indices)
    \/ \E d \in DiffJsons, o \in Operations : LogTransaction("ghost", d, o, None)
    \/ PopTransaction("ghost")
    \/ \E e \in EnvNames, dest \in EnvNames : \E indices \in IndexLists(e) :
           Move(e, dest, indices)

SpecMissing == Init /\ [][NextMissing]_vars

\* C19: an operation naming an environment that has no store returns an error and
\* changes no store; a Move whose destination environment has no store returns an
\* error and leaves the source environment (and every other) unchanged.
C19_MissingEnvironmentIsError ==
    [][(\/ last'.env \notin StoreEnvs
        \/ last'.cmd = "move" /\ last'.dest_env[1] \notin StoreEnvs) =>
          (~Returned(last') /\ last'.result.out = None /\ db' = db)]_vars

\* C19 witness: a Move of the task at index 1 to an environment without a store
\* returned an error, and the task is still at index 1 of the source.
C19_Witness ==
    /\ last.cmd = "move"
    /\ last.env = "default"
    /\ last.dest_env = Some("ghost")
    /\ last.indices = <<1>>
    /\ ~Returned(last)
    /\ 1 \in ActiveIndices(db["default"])

UnchangedIfAbsent(change, old, new) == ~IsSome(change) => new = old

\* C20: Modify changes only the fields present in the change set (summary, status,
\* due, wait, priority, project, url, tags) plus pending_action and the derived
\* due/wait timestamps: of every matched task the uid, the index, last_synced, href
\* and attachments are as before, every field absent from the change set is as
\* before (the derived timestamp of an absent due or wait too), and every field
\* present holds the value of the change set.  (The fields are those of the task;
\* the row's modification time updated_at is written by every Modify.)
C20_ModifyChangesOnlyNamedFields ==
    [][(last'.cmd = "modify" /\ Returned(last')) =>
          LET c == last'.changes[1] IN
          \A r \in RowsAt(db[last'.env], last'.indices) :
              /\ WithUid(db'[last'.env].tasks, r.uid) # {}
              /\ \A k \in WithUid(db'[last'.env].tasks, r.uid) :
                     LET n == db'[last'.env].tasks[k] IN
                     /\ n.uid = r.uid
                     /\ n.task_index = r.task_index
                     /\ n.last_synced = r.last_synced
                     /\ n.href = r.href
                     /\ n.attachments = r.attachments
                     /\ UnchangedIfAbsent(c.summary, r.summary, n.summary)
                     /\ UnchangedIfAbsent(c.status, r.status, n.status)
                     /\ UnchangedIfAbsent(c.due, r.due, n.due)
                     /\ UnchangedIfAbsent(c.due, r.due_utc, n.due_utc)
                     /\ UnchangedIfAbsent(c.wait, r.wait, n.wait)
                     /\ UnchangedIfAbsent(c.wait, r.wait_utc, n.wait_utc)
                     /\ UnchangedIfAbsent(c.priority, r.priority, n.priority)
                     /\ UnchangedIfAbsent(c.project, r.x_properties, n.x_properties)
                     /\ UnchangedIfAbsent(c.url, r.url, n.url)
                     /\ (~IsSome(c.add_tags) /\ ~IsSome(c.remove_tags)) =>
                            n.categories = r.categories
                     /\ IsSome(c.summary) => n.summary = c.summary[1]
                     /\ IsSome(c.status) => n.status = c.status[1]
                     /\ IsSome(c.due) => n.due = c.due
                     /\ IsSome(c.wait) => n.wait = c.wait
                     /\ IsSome(c.priority) => n.priority = c.priority
                     /\ IsSome(c.url) => n.url = c.url
                     /\ IsSome(c.project) => project_of(n.x_properties) = c.project]_vars

\* C20 witness: a Modify that names summary, due, priority, project and url acted on
\* a task that has a status, a wait string and tags of its own: the summary is the
\* new one and status, wait and tags are the task's.
C20_Witness ==
    /\ last.cmd = "modify"
    /\ Returned(last)
    /\ last.changes[1].summary = Some("s3")
    /\ \E r \in Range(db[last.env].tasks) :
           /\ r.uid \in ResultUids(last)
           /\ r.summary = "s3"
           /\ r.status = "IN-PROCESS"
           /\ r.wait = Some("soon")
           /\ StoredTags(r) = <<"a", "b", "a">>

AllUids(d) ==
    UNION {Uids(d[e].tasks) \cup Uids(d[e].completed_tasks) \cup Uids(d[e].deleted_tasks) :
           e \in DOMAIN d}

\* C21: Create adds exactly one task to the active set, with a uid that no record of
\* any table holds, the status NEEDS-ACTION when the input gives none (the input's
\* otherwise) and pending_action `create`; the index it returns is the index stored
\* on the returned task and on the new row, and no record that existed is changed.
C21_CreateAddsOneFreshTask ==
    [][(last'.cmd = "add" /\ Returned(last')) =>
          LET e == last'.env
              input == last'.input[1]
              old == db[e].tasks
              new == db'[e].tasks
              row == new[Len(new)]
              task == Out(last').task[1]
          IN  /\ Len(new) = Len(old) + 1
              /\ SubSeq(new, 1, Len(old)) = old
              /\ db' = [db EXCEPT ![e].tasks = new]
              /\ row.uid \notin AllUids(db)
              /\ row.summary = input.summary
              /\ row.status = IF IsSome(input.status) THEN input.status[1] ELSE "NEEDS-ACTION"
              /\ row.pending_action = Some("create")
              /\ task.uid = row.uid
              /\ task.status = row.status
              /\ Out(last').index = Some(task.index)
              /\ row.task_index = Some(task.index)]_vars

\* C21 witness: a Create whose input gives no status added a third task, with the
\* status NEEDS-ACTION, to an active set of two.
C21_Witness ==
    /\ last.cmd = "add"
    /\ Returned(last)
    /\ last.input[1].status = None
    /\ Len(db[last.env].tasks) = 3
    /\ Out(last).task[1].status = "NEEDS-ACTION"
    /\ Out(last).index = Some(Out(last).task[1].index)
    /\ db[last.env].tasks[3].uid = Out(last).task[1].uid

IsPrefix(s, t) == Len(s) <= Len(t) /\ SubSeq(t, 1, Len(s)) = s

\* C22: once a record is in the completed set or the deleted set, no Create, Modify,
\* Start, Stop, Complete or Delete changes or removes it (the two tables only grow at
\* the end), and a command addressed at the index such a record holds acts on no
\* task or on a task with another uid that was created after the record's transition.
C22_TerminalRecordsAreFinal ==
    [][/\ \A e \in DOMAIN db :
              /\ IsPrefix(db[e].completed_tasks, db'[e].completed_tasks)
              /\ IsPrefix(db[e].deleted_tasks, db'[e].deleted_tasks)
       /\ (last'.cmd \in IndexCommands /\ Returned(last')) =>
              \A r \in RowsAt(db[last'.env], last'.indices) :
                  /\ \A t \in Range(db[last'.env].completed_tasks) :
                         t.task_index = r.task_index =>
                             r.uid # t.uid /\ r.uid > t.completed_at[1]
                  /\ \A t \in Range(db[last'.env].deleted_tasks) :
                         t.task_index = r.task_index =>
                             r.uid # t.uid /\ r.uid > t.deleted_at[1]]_vars

\* C22 witness: a Modify acted on the task at an index that a record of the completed
\* set holds too; the record is still in the completed set and the two uids differ.
C22_Witness ==
    /\ last.cmd = "modify"
    /\ Returned(last)
    /\ \E t \in Range(db[last.env].completed_tasks) :
           \E task \in Range(Out(last).tasks[1]) :
               Some(task.index) = t.task_index /\ task.uid # t.uid

\* C23: an active task keeps its index for as long as it stays in the active set, and
\* Create, Modify, Start, Stop, Complete and Delete leave every active task at an
\* index they do not name as it was, in all its columns: no index is renumbered when
\* a hole appears.
C23_OtherTasksUntouched ==
    [][/\ \A e \in DOMAIN db : \A r \in Range(db[e].tasks) :
              \A k \in WithUid(db'[e].tasks, r.uid) :
                  db'[e].tasks[k].task_index = r.task_index
       /\ (last'.cmd \in IndexCommands \cup {"add"} /\ Returned(last')) =>
              \A e \in DOMAIN db : \A r \in Range(db[e].tasks) :
                  (e # last'.env \/ r.task_index[1] \notin Range(last'.indices)) =>
                      /\ r \in Range(db'[e].tasks)
                      /\ Cardinality(WithUid(db'[e].tasks, r.uid)) = 1]_vars

\* C23 witness: a Delete of index 1 removed a task and left the hole: the active set
\* holds the indices 2 and 3 and not 1.
C23_Witness ==
    /\ last.cmd = "delete"
    /\ Returned(last)
    /\ last.indices = <<1>>
    /\ Len(Out(last).tasks[1]) = 1
    /\ ActiveIndices(db[last.env]) = {2, 3}

(***************************************************************************)
(* db.rs: the queries.  They read the tasks table and write nothing: they  *)
(* are functions of the store.  ORDER BY task_index leaves the order of    *)
(* rows with one index open; the stores compared below hold none.          *)
(***************************************************************************)
order_by_task_index(rows) ==
    SortSeq(rows, LAMBDA a, b : a.task_index[1] < b.task_index[1])

rows_to_tasks(rows) == [k \in 1..Len(rows) |-> Task_from_row(rows[k])]

\* SELECT ... FROM tasks WHERE status != 'COMPLETED' ORDER BY task_index
list_tasks(conn) ==
    rows_to_tasks(order_by_task_index(
        SelectSeq(conn.tasks, LAMBDA r : r.status # "COMPLETED")))

\* SELECT ... FROM tasks WHERE task_index IN (...) ORDER BY task_index
get_tasks_by_indices(conn, indices) ==
    IF indices = <<>> THEN <<>>
    ELSE rows_to_tasks(order_by_task_index(
             SelectSeq(conn.tasks, LAMBDA r : r.task_index[1] \in Range(indices))))

\* the indices next_available_index collects: those of all rows of tasks
allocator_taken(conn) ==
    LET nonnull == SelectSeq(conn.tasks, LAMBDA r : r.task_index # None)
    IN  {nonnull[k].task_index[1] : k \in 1..Len(nonnull)}

\* C24: in every store state the queries agree on what the active tasks are:
\* get_tasks_by_indices(indices) returns exactly the tasks of list_tasks whose index
\* is in the list, and every index the allocator treats as taken is the index of a
\* task that list_tasks returns.
C24_QueriesAgree ==
    \A e \in DOMAIN db :
        /\ \A indices \in IndexLists(e) :
               get_tasks_by_indices(db[e], indices) =
                   SelectSeq(list_tasks(db[e]), LAMBDA t : t.index \in Range(indices))
        /\ \A i \in allocator_taken(db[e]) :
               \E t \in Range(list_tasks(db[e])) : t.index = i

HasRepeat(indices) == \E j, k \in 1..Len(indices) : j < k /\ indices[j] = indices[k]

\* C25: when an index occurs more than once in one Complete or Delete request, the
\* task at it leaves the active set once and appears exactly once in the result
\* list; the later occurrences match nothing: the completed set gains one record of
\* the task (Complete), the deleted set one or, for a never-synced task, none
\* (Delete), and neither gains any other record.
C25_RepeatedIndexActsOnce ==
    [][(last'.cmd \in {"do", "delete"} /\ Returned(last') /\ HasRepeat(last'.indices)) =>
          LET e == last'.env
              matched == RowsAt(db[e], last'.indices)
              tasks == Out(last').tasks[1]
              tombstones == {r \in matched : r.pending_action # Some("create")}
          IN  /\ Len(tasks) = Cardinality(matched)
              /\ \A r \in matched :
                     /\ Cardinality({k \in 1..Len(tasks) : tasks[k].uid = r.uid}) = 1
                     /\ r.uid \notin Uids(db'[e].tasks)
                     /\ Cardinality(WithUid(db'[e].completed_tasks, r.uid)) =
                            IF last'.cmd = "do" THEN 1 ELSE 0
                     /\ Cardinality(WithUid(db'[e].deleted_tasks, r.uid)) =
                            IF last'.cmd = "delete" /\ r \in tombstones THEN 1 ELSE 0
              /\ Len(db'[e].completed_tasks) = Len(db[e].completed_tasks) +
                     (IF last'.cmd = "do" THEN Cardinality(matched) ELSE 0)
              /\ Len(db'[e].deleted_tasks) = Len(db[e].deleted_tasks) +
                     (IF last'.cmd = "delete" THEN Cardinality(tombstones) ELSE 0)]_vars

\* C25 witness: a Complete of the indices 1, 1 returned one task, and the completed
\* set holds one record of it.
C25_Witness ==
    /\ last.cmd = "do"
    /\ Returned(last)
    /\ last.indices = <<1, 1>>
    /\ Len(Out(last).tasks[1]) = 1
    /\ Cardinality(WithUid(db[last.env].completed_tasks, Out(last).tasks[1][1].uid)) = 1
    /\ 1 \notin ActiveIndices(db[last.env])
====
